---- MODULE Spec2Model ----
(***************************************************************************)
(* Order lifecycle and stock consistency of the marketplace backend.       *)
(*                                                                         *)
(* The persistent store is modelled by two collections: products and       *)
(* orders.  Every route handler is one action, except order placement      *)
(* (POST /api/orders), which is split at its store round trips (await) so  *)
(* that concurrent requests interleave as they do in the event loop.       *)
(*                                                                         *)
(* Money is kept in hundredths of the currency unit: a product price p     *)
(* with offer f has priceAtPurchase p * (1 - f/100), i.e. p * (100 - f)    *)
(* hundredths.  Floating point rounding is not modelled.                   *)
(***************************************************************************)
EXTENDS Integers, Sequences, FiniteSets, TLC

\* ---------------------------------------------------------------- bounds
MaxProducts == 1   \* products ever created
MaxOrders   == 1   \* orders ever persisted
MaxItems    == 2   \* lines of one order request
MaxLifecycleItems == 1   \* lines of one order request under Spec
MaxQty      == 2   \* largest quantity of one line
MaxStock    == 2   \* largest stock value written or restored
MaxCartQty  == 3   \* largest quantity a cart holds of one product
MaxCategories == 2 \* categories ever stored
InitialStock == 1  \* stock of a product when its restorations are counted
MaxRefunded == 2000 \* largest sum of refunds counted for one order, in hundredths
MaxAddresses == 2  \* shipping addresses one user holds

\* ---------------------------------------------------------------- users
Customers == {"c1", "c2"}
Vendors   == {"v1", "v2"}
Admins    == {"a1"}
Users     == Customers \cup Vendors \cup Admins

\* user.role of the user record fetched by User.findById(req.user.userId)
Role(u) ==
  IF u \in Customers THEN "customer"
  ELSE IF u \in Vendors THEN "vendor"
  ELSE "admin"

\* orderSchema.status and orderSchema.paymentStatus enums
Statuses        == {"pending", "paid", "shipped", "delivered", "cancelled", "refunded"}
PaymentStatuses == {"pending", "paid", "failed", "refunded"}

VARIABLES
  products,  \* Product collection: sequence indexed by product id
  orders,    \* Order collection: sequence indexed by order id
  req,       \* order-placement requests in flight, one record per slot
  last,      \* response of the last completed single-step handler
  carts,     \* Cart collection: one entry per customer
  added,     \* history: quantity added per customer and product since the
             \* product was last removed or the cart last cleared
  categories, \* Category collection: sequence indexed by category id
  catReq,    \* category create/update requests in flight, one per slot
  quote,     \* a shipping cost request and its response
  users,     \* User collection: per user, whether the record exists and isBlocked
  ledger,    \* history: per order on the ledger, the sum of the refunds
             \* reported as succeeded and the number of stock restorations
  addresses, \* user.addresses: per customer, the sequence of shipping addresses
  notifications \* user.notifications: per customer, the sequence of notifications

vars == <<products, orders, req, last, carts, added, categories, catReq, quote,
          users, ledger, addresses, notifications>>

\* the fields of the user records
accountVars == <<users, addresses, notifications>>

\* the collections the order, product and payment handlers never write
storeVars == <<carts, added, categories, catReq, quote, accountVars>>
otherVars == <<storeVars, ledger>>

\* what the cart, category, shipping-cost and analytics handlers never write
\* besides the store
lateVars == <<ledger, accountVars>>

Slots == {"r1", "r2"}

IdleReq ==
  [pc |-> "idle", user |-> "none", items |-> <<>>, idx |-> 0,
   orderItems |-> <<>>, total |-> 0, found |-> 0, resp |-> "none",
   keep |-> FALSE, before |-> <<>>, ordersBefore |-> 0]

NoResponse == [op |-> "none", code |-> "none"]

Response(op, code) == [op |-> op, code |-> code]

\* the identity gate lets a request through on a signed, unexpired
\* credential; it does not read the user record
Authenticated(u) == u \in Users

\* the negation of !user, for user = await User.findById(req.user.userId)
UserExists(u) == users[u].exists

\* ---------------------------------------------------------------- helpers
\* Product.findById(id): the product exists in the collection
ProductExists(id) == id \in 1..Len(products) /\ products[id].exists

\* mutant of OwnedBy: the vendor filter is left out of the query
OwnedByAnyone(id, u) == ProductExists(id)

\* Product.find({ vendor: user._id, _id: id })
OwnedBy(id, u) == ProductExists(id) /\ products[id].vendor = u

\* const discount = product.offer || 0
Discount(offer) == IF offer = 0 THEN 0 ELSE offer

\* mutant of PriceAtPurchase: the offer is not applied
PriceWithoutOffer(price, offer) == price * 100

\* const price = product.price * (1 - discount / 100), in hundredths
PriceAtPurchase(price, offer) == price * (100 - Discount(offer))

\* total += price * item.quantity
LineAmount(price, offer, quantity) == PriceAtPurchase(price, offer) * quantity

\* stock value written by placement: product.stock - item.quantity
StockAfterOrder(found, quantity) == found - quantity

\* the availability test of placement: product.stock < item.quantity
Insufficient(stock, quantity) == stock < quantity

SetStock(id, s) == [products EXCEPT ![id].stock = s]

\* ---------------------------------------------------------------- products
\* POST /api/products
CreateProduct(u, price, offer, stock) ==
  /\ IF Role(u) \notin {"vendor", "admin"}
     THEN /\ last' = Response("createProduct", "Forbidden")
          /\ UNCHANGED products
     ELSE /\ products' = Append(products,
                [vendor |-> u, price |-> price, offer |-> offer,
                 stock |-> stock, exists |-> TRUE])
          /\ last' = Response("createProduct", "Created")
  /\ UNCHANGED <<orders, req>>
  /\ UNCHANGED otherVars

\* PUT /api/products/:id
UpdateProduct(u, id, price, offer, stock) ==
  /\ IF Role(u) \notin {"vendor", "admin"}
     THEN /\ last' = Response("updateProduct", "Forbidden")
          /\ UNCHANGED products
     ELSE IF (Role(u) = "vendor" /\ ~OwnedBy(id, u)) \/ ~ProductExists(id)
     THEN /\ last' = Response("updateProduct", "NotFound")
          /\ UNCHANGED products
     ELSE /\ products' = [products EXCEPT ![id].price = price,
                                          ![id].offer = offer,
                                          ![id].stock = stock]
          /\ last' = Response("updateProduct", "OK")
  /\ UNCHANGED <<orders, req>>
  /\ UNCHANGED otherVars

\* PATCH /api/products/:id/stock
UpdateProductStock(u, id, stock) ==
  /\ IF Role(u) # "vendor"
     THEN /\ last' = Response("updateStock", "Forbidden")
          /\ UNCHANGED products
     ELSE IF stock < 0
     THEN /\ last' = Response("updateStock", "InvalidInput")
          /\ UNCHANGED products
     ELSE IF ~OwnedBy(id, u)
     THEN /\ last' = Response("updateStock", "NotFound")
          /\ UNCHANGED products
     ELSE /\ products' = SetStock(id, stock)
          /\ last' = Response("updateStock", "OK")
  /\ UNCHANGED <<orders, req>>
  /\ UNCHANGED otherVars

\* PATCH /api/products/:id/offer
UpdateProductOffer(u, id, offer) ==
  /\ IF Role(u) # "vendor"
     THEN /\ last' = Response("updateOffer", "Forbidden")
          /\ UNCHANGED products
     ELSE IF offer < 0 \/ offer > 100
     THEN /\ last' = Response("updateOffer", "InvalidInput")
          /\ UNCHANGED products
     ELSE IF ~OwnedBy(id, u)
     THEN /\ last' = Response("updateOffer", "NotFound")
          /\ UNCHANGED products
     ELSE /\ products' = [products EXCEPT ![id].offer = offer]
          /\ last' = Response("updateOffer", "OK")
  /\ UNCHANGED <<orders, req>>
  /\ UNCHANGED otherVars

\* DELETE /api/products/:id
DeleteProduct(u, id) ==
  /\ IF Role(u) \notin {"vendor", "admin"}
     THEN /\ last' = Response("deleteProduct", "Forbidden")
          /\ UNCHANGED products
     ELSE IF (Role(u) = "vendor" /\ ~OwnedBy(id, u)) \/ ~ProductExists(id)
     THEN /\ last' = Response("deleteProduct", "NotFound")
          /\ UNCHANGED products
     ELSE /\ products' = [products EXCEPT ![id].exists = FALSE]
          /\ last' = Response("deleteProduct", "OK")
  /\ UNCHANGED <<orders, req>>
  /\ UNCHANGED otherVars

\* ---------------------------------------------------------------- orders
\* Order.findById(id)
OrderExists(o) == o \in 1..Len(orders)

\* order.items.map(item => item.product)
ProductIds(items) == {items[i].product : i \in 1..Len(items)}

\* mutant of VendorHasProductIn: the length test never sees an empty result
VendorCheckNeverFires(u, items) == TRUE

\* Product.find({ vendor: user._id, _id: { $in: productIds } }).length > 0
VendorHasProductIn(u, items) == \E id \in ProductIds(items) : OwnedBy(id, u)

\* for (const item of order.items)
\*   Product.findByIdAndUpdate(item.product, { $inc: { stock: item.quantity } })
RECURSIVE RestoreStock(_, _)
RestoreStock(prods, items) ==
  IF items = <<>> THEN prods
  ELSE LET id == Head(items).product
           q  == Head(items).quantity
           next == IF id \in 1..Len(prods) /\ prods[id].exists
                   THEN [prods EXCEPT ![id].stock = @ + q]
                   ELSE prods
       IN RestoreStock(next, Tail(items))

\* the statuses from which DELETE /api/orders/:id cancels
Cancellable(status) == status \in {"pending", "paid"}

\* the status from which cancellation puts the stock back
RestoresStock(status) == status = "paid"

StockCapped(prods) == \A id \in 1..Len(prods) : prods[id].stock <= MaxStock

\* history: the ledger entry of order o after a stock restoration
Restored(o) ==
  IF o \in DOMAIN ledger
  THEN [ledger EXCEPT ![o].restored = @ + 1]
  ELSE ledger

\* mutant of MarkCancelled: the cancelled order is deleted from the collection
RemoveOrder(os, o) == SubSeq(os, 1, o - 1) \o SubSeq(os, o + 1, Len(os))

\* order.status = 'cancelled'; await order.save()
MarkCancelled(os, o) == [os EXCEPT ![o].status = "cancelled"]

\* DELETE /api/orders/:id
CancelOrder(u, o) ==
  /\ IF ~OrderExists(o)
     THEN /\ last' = Response("cancel", "NotFound")
          /\ UNCHANGED <<products, orders>>
     ELSE IF ~UserExists(u)
     THEN /\ last' = Response("cancel", "Internal")
          /\ UNCHANGED <<products, orders>>
     ELSE IF Role(u) = "customer" /\ orders[o].customer # u
     THEN /\ last' = Response("cancel", "Forbidden")
          /\ UNCHANGED <<products, orders>>
     ELSE IF Role(u) = "vendor" /\ ~VendorHasProductIn(u, orders[o].items)
     THEN /\ last' = Response("cancel", "Forbidden")
          /\ UNCHANGED <<products, orders>>
     ELSE IF ~Cancellable(orders[o].status)
     THEN /\ last' = Response("cancel", "InvalidTransition")
          /\ UNCHANGED <<products, orders>>
     ELSE /\ products' = IF RestoresStock(orders[o].status)
                         THEN RestoreStock(products, orders[o].items)
                         ELSE products
          /\ StockCapped(products')
          /\ orders' = MarkCancelled(orders, o)
          /\ last' = Response("cancel", "OK")
  /\ ledger' = IF last'.code = "OK" /\ RestoresStock(orders[o].status)
               THEN Restored(o)
               ELSE ledger
  /\ UNCHANGED req
  /\ UNCHANGED storeVars

\* PATCH /api/orders/:id/pay
PayOrder(u, o) ==
  /\ IF ~UserExists(u) \/ Role(u) # "customer"
     THEN /\ last' = Response("pay", "Forbidden")
          /\ UNCHANGED orders
     ELSE IF ~OrderExists(o) \/ orders[o].customer # u
     THEN /\ last' = Response("pay", "NotFound")
          /\ UNCHANGED orders
     ELSE IF orders[o].status # "pending"
     THEN /\ last' = Response("pay", "InvalidTransition")
          /\ UNCHANGED orders
     ELSE /\ orders' = [orders EXCEPT ![o].status = "paid"]
          /\ last' = Response("pay", "OK")
  /\ UNCHANGED <<products, req>>
  /\ UNCHANGED otherVars

\* const validStatuses = ['shipped', 'delivered', 'cancelled']
VendorStatuses == {"shipped", "delivered", "cancelled"}

\* the status PATCH /api/orders/:id/status stores for a request
VendorStatusWrite(current, requested) == requested

\* PATCH /api/orders/:id/status
UpdateOrderStatus(u, o, status) ==
  /\ IF ~UserExists(u) \/ Role(u) # "vendor"
     THEN /\ last' = Response("vendorStatus", "Forbidden")
          /\ UNCHANGED orders
     ELSE IF status \notin VendorStatuses
     THEN /\ last' = Response("vendorStatus", "InvalidInput")
          /\ UNCHANGED orders
     ELSE IF ~OrderExists(o) \/ ~VendorHasProductIn(u, orders[o].items)
     THEN /\ last' = Response("vendorStatus", "NotFound")
          /\ UNCHANGED orders
     ELSE /\ orders' = [orders EXCEPT
                          ![o].status = VendorStatusWrite(@, status)]
          /\ last' = Response("vendorStatus", "OK")
  /\ UNCHANGED <<products, req>>
  /\ UNCHANGED otherVars

\* PUT /api/orders/:id
AdminUpdateOrder(u, o, status, total) ==
  /\ IF Role(u) # "admin"
     THEN /\ last' = Response("adminUpdate", "Forbidden")
          /\ UNCHANGED orders
     ELSE IF status \notin Statuses
     THEN /\ last' = Response("adminUpdate", "Internal")
          /\ UNCHANGED orders
     ELSE IF ~OrderExists(o)
     THEN /\ last' = Response("adminUpdate", "NotFound")
          /\ UNCHANGED orders
     ELSE /\ orders' = [orders EXCEPT ![o].status = status, ![o].total = total]
          /\ last' = Response("adminUpdate", "OK")
  /\ UNCHANGED <<products, req>>
  /\ UNCHANGED otherVars

\* ---------------------------------------------------------------- payments
\* POST /api/payments/confirm
ConfirmPayment(u, o) ==
  /\ IF ~OrderExists(o)
     THEN /\ last' = Response("confirm", "NotFound")
          /\ UNCHANGED orders
     ELSE IF orders[o].customer # u
     THEN /\ last' = Response("confirm", "Forbidden")
          /\ UNCHANGED orders
     ELSE /\ orders' = [orders EXCEPT ![o].status = "paid",
                                      ![o].paymentStatus = "paid"]
          /\ last' = Response("confirm", "OK")
  /\ UNCHANGED <<products, req>>
  /\ UNCHANGED otherVars

\* if (!orderId || !amount)
AmountMissing(amount) == amount = 0

\* mutant of ExceedsTotal: a refund of the whole total is turned down too
ReachesTotal(amount, total) == amount >= total

\* if (amount > order.total)
ExceedsTotal(amount, total) == amount > total

\* if (amount === order.total)
FullRefund(amount, total) == amount = total

\* history: the ledger entry of order o after a refund reported as succeeded
Refunded(o, amount) ==
  IF o \in DOMAIN ledger
  THEN [ledger EXCEPT ![o].refunded = @ + amount]
  ELSE ledger

\* mutant of MayRequestRefund: every customer may ask for the refund
AnyCustomerMayRequestRefund(u, o) == Role(u) \in {"admin", "customer"}

\* the negation of
\* if (user.role !== 'admin' && order.customer.toString() !== user._id.toString())
MayRequestRefund(u, o) == Role(u) = "admin" \/ orders[o].customer = u

\* POST /api/payments/refund
ProcessRefund(u, o, amount) ==
  /\ IF AmountMissing(amount)
     THEN /\ last' = Response("refund", "InvalidInput")
          /\ UNCHANGED orders
     ELSE IF ~OrderExists(o)
     THEN /\ last' = Response("refund", "NotFound")
          /\ UNCHANGED orders
     ELSE IF ~MayRequestRefund(u, o)
     THEN /\ last' = Response("refund", "Forbidden")
          /\ UNCHANGED orders
     ELSE IF orders[o].paymentStatus # "paid"
     THEN /\ last' = Response("refund", "InvalidTransition")
          /\ UNCHANGED orders
     ELSE IF ExceedsTotal(amount, orders[o].total)
     THEN /\ last' = Response("refund", "InvalidInput")
          /\ UNCHANGED orders
     ELSE /\ orders' = IF FullRefund(amount, orders[o].total)
                       THEN [orders EXCEPT ![o].status = "refunded",
                                           ![o].paymentStatus = "refunded"]
                       ELSE orders
          /\ last' = Response("refund", "OK")
  /\ ledger' = IF last'.code = "OK" THEN Refunded(o, amount) ELSE ledger
  /\ UNCHANGED <<products, req>>
  /\ UNCHANGED storeVars

WebhookTypes == {"payment_intent.succeeded", "payment_intent.payment_failed", "other"}

\* POST /api/payments/webhook
PaymentWebhook(o, type) ==
  /\ orders' =
       IF ~OrderExists(o) THEN orders
       ELSE IF type = "payment_intent.succeeded"
       THEN [orders EXCEPT ![o].status = "paid", ![o].paymentStatus = "paid"]
       ELSE IF type = "payment_intent.payment_failed"
       THEN [orders EXCEPT ![o].paymentStatus = "failed"]
       ELSE orders
  /\ last' = Response("webhook", "OK")
  /\ UNCHANGED <<products, req>>
  /\ UNCHANGED otherVars

\* ---------------------------------------------------------------- placement
InFlight == {r \in Slots : req[r].pc \in {"find", "update", "save"}}

\* res.status(...).json(...): the request ends with the response code.  With
\* keep the finished request stays in its slot for inspection, otherwise the
\* slot is free at once.
Finish(r, code, keep) ==
  /\ req' = [req EXCEPT ![r] = IF keep THEN [req[r] EXCEPT !.pc = "done", !.resp = code]
                                ELSE IdleReq]
  /\ last' = Response("placeOrder", code)

\* mutant of MayPlaceOrder: vendors pass the role check too
VendorsMayPlaceOrder(role) == role \in {"customer", "vendor"}

\* user.role !== 'customer' turns the request away
MayPlaceOrder(role) == role = "customer"

\* POST /api/orders, up to the first product read: role and input checks
PlaceOrderBegin(r, u, items, keep) ==
  /\ req[r].pc = "idle"
  /\ LET started == [IdleReq EXCEPT !.user = u, !.items = items, !.keep = keep,
                                    !.before = IF keep THEN products ELSE <<>>,
                                    !.ordersBefore = IF keep THEN Len(orders) ELSE 0]
     IN IF ~UserExists(u) \/ ~MayPlaceOrder(Role(u))
        THEN /\ req' = [req EXCEPT ![r] = IF keep
                          THEN [started EXCEPT !.pc = "done", !.resp = "Forbidden"]
                          ELSE IdleReq]
             /\ last' = Response("placeOrder", "Forbidden")
        ELSE IF Len(items) = 0
        THEN /\ req' = [req EXCEPT ![r] = IF keep
                          THEN [started EXCEPT !.pc = "done", !.resp = "InvalidInput"]
                          ELSE IdleReq]
             /\ last' = Response("placeOrder", "InvalidInput")
        ELSE /\ req' = [req EXCEPT ![r] = [started EXCEPT !.pc = "find", !.idx = 1]]
             /\ UNCHANGED last
  /\ UNCHANGED <<products, orders>>
  /\ UNCHANGED otherVars

\* one loop iteration up to its stock write: Product.findById, the checks,
\* the price snapshot and the running total
PlaceOrderFind(r) ==
  /\ req[r].pc = "find"
  /\ LET item == req[r].items[req[r].idx]
         id   == item.product
     IN IF ~ProductExists(id)
        THEN Finish(r, "NotFound", req[r].keep)
        ELSE IF Insufficient(products[id].stock, item.quantity)
        THEN Finish(r, "InsufficientStock", req[r].keep)
        ELSE /\ req' = [req EXCEPT
                  ![r].orderItems = Append(@,
                     [product |-> id, quantity |-> item.quantity,
                      priceAtPurchase |->
                        PriceAtPurchase(products[id].price, products[id].offer)]),
                  ![r].total = @ + LineAmount(products[id].price,
                                              products[id].offer, item.quantity),
                  ![r].found = products[id].stock,
                  ![r].pc = "update"]
             /\ UNCHANGED last
  /\ UNCHANGED <<products, orders>>
  /\ UNCHANGED otherVars

\* Product.findByIdAndUpdate(product._id, { stock: product.stock - item.quantity })
PlaceOrderUpdateStock(r) ==
  /\ req[r].pc = "update"
  /\ LET item == req[r].items[req[r].idx]
         id   == item.product
         s    == StockAfterOrder(req[r].found, item.quantity)
     IN /\ s <= MaxStock
        /\ products' = IF ProductExists(id) THEN SetStock(id, s) ELSE products
  /\ req' = [req EXCEPT ![r].idx = @ + 1,
                        ![r].found = 0,
                        ![r].pc = IF req[r].idx = Len(req[r].items)
                                  THEN "save" ELSE "find"]
  /\ UNCHANGED <<orders, last>>
  /\ UNCHANGED otherVars

\* new Order({ customer, items, total, shippingAddress }); order.save()
\* mutant of NewOrder: the order is stored as already paid
NewOrderPaid(customer, orderItems, total) ==
  [customer |-> customer, items |-> orderItems, total |-> total,
   status |-> "paid", paymentStatus |-> "paid"]

NewOrder(customer, orderItems, total) ==
  [customer |-> customer, items |-> orderItems, total |-> total,
   status |-> "pending", paymentStatus |-> "pending"]

PlaceOrderSave(r) ==
  /\ req[r].pc = "save"
  /\ orders' = Append(orders, NewOrder(req[r].user, req[r].orderItems, req[r].total))
  /\ Finish(r, "Created", req[r].keep)
  /\ UNCHANGED products
  /\ UNCHANGED otherVars

\* a finished request kept for inspection leaves its slot
PlaceOrderRespond(r) ==
  /\ req[r].pc = "done"
  /\ req' = [req EXCEPT ![r] = IdleReq]
  /\ UNCHANGED <<products, orders, last>>
  /\ UNCHANGED otherVars

\* ---------------------------------------------------------------- cart
\* product ids a cart request may name: the route does not look the product up
CartProductRefs == 1..(MaxProducts + 1)

\* a request body without product (or without quantity) carries 0 for it
Missing == 0

\* Cart.findOne({ customer: user._id }) found nothing
NoCart == [exists |-> FALSE, items |-> <<>>]

\* let cart = await Cart.findOne(...); if (!cart) cart = new Cart({ items: [] })
CartItems(u) == IF carts[u].exists THEN carts[u].items ELSE <<>>

\* mutant of FindIndex: the stored id never compares equal to the request's
FindIndexByIdentity(items, product) == 0

\* cart.items.findIndex(i => i.product.toString() === product), 1-based,
\* 0 for not found
FindIndex(items, product) ==
  IF \E i \in 1..Len(items) : items[i].product = product
  THEN CHOOSE i \in 1..Len(items) :
         /\ items[i].product = product
         /\ \A j \in 1..(i - 1) : items[j].product # product
  ELSE 0

\* cart.items[itemIndex].quantity += quantity, or cart.items.push(...)
AddLine(items, product, quantity) ==
  LET itemIndex == FindIndex(items, product)
  IN IF itemIndex > 0
     THEN [items EXCEPT ![itemIndex].quantity = @ + quantity]
     ELSE Append(items, [product |-> product, quantity |-> quantity])

\* cart.items.filter(i => i.product.toString() !== product)
RemoveLines(items, product) ==
  SelectSeq(items, LAMBDA i : i.product # product)

\* POST /api/cart/add
CartAdd(u, product, quantity) ==
  /\ IF Role(u) # "customer"
     THEN /\ last' = Response("cartAdd", "Forbidden")
          /\ UNCHANGED <<carts, added>>
     ELSE IF product = Missing \/ quantity = Missing \/ quantity < 1
     THEN /\ last' = Response("cartAdd", "InvalidInput")
          /\ UNCHANGED <<carts, added>>
     ELSE /\ carts' = [carts EXCEPT ![u] =
                         [exists |-> TRUE,
                          items |-> AddLine(CartItems(u), product, quantity)]]
          /\ added' = [added EXCEPT ![u][product] = @ + quantity]
          /\ last' = Response("cartAdd", "OK")
  /\ UNCHANGED <<products, orders, req, categories, catReq, quote>>
  /\ UNCHANGED lateVars

\* POST /api/cart/remove
CartRemove(u, product) ==
  /\ IF Role(u) # "customer"
     THEN /\ last' = Response("cartRemove", "Forbidden")
          /\ UNCHANGED <<carts, added>>
     ELSE IF ~carts[u].exists
     THEN /\ last' = Response("cartRemove", "NotFound")
          /\ UNCHANGED <<carts, added>>
     ELSE /\ carts' = [carts EXCEPT ![u].items = RemoveLines(@, product)]
          /\ added' = [added EXCEPT ![u] =
                         [p \in CartProductRefs |-> IF p = product THEN 0 ELSE @[p]]]
          /\ last' = Response("cartRemove", "OK")
  /\ UNCHANGED <<products, orders, req, categories, catReq, quote>>
  /\ UNCHANGED lateVars

\* POST /api/cart/clear
CartClear(u) ==
  /\ IF Role(u) # "customer"
     THEN /\ last' = Response("cartClear", "Forbidden")
          /\ UNCHANGED <<carts, added>>
     ELSE IF ~carts[u].exists
     THEN /\ last' = Response("cartClear", "NotFound")
          /\ UNCHANGED <<carts, added>>
     ELSE /\ carts' = [carts EXCEPT ![u].items = <<>>]
          /\ added' = [added EXCEPT ![u] = [p \in CartProductRefs |-> 0]]
          /\ last' = Response("cartClear", "OK")
  /\ UNCHANGED <<products, orders, req, categories, catReq, quote>>
  /\ UNCHANGED lateVars

\* ---------------------------------------------------------------- categories
\* category names of the requests; "" is a request without name
CategoryNames == {"books", "Books", "c", "c+", "C+"}

\* the name in lower case
Lower(name) ==
  IF name = "Books" THEN "books" ELSE IF name = "C+" THEN "c+" ELSE name

\* the lower-case names, among those of CategoryNames, that the regular
\* expression ^name$ spells: a name without metacharacters spells itself,
\* c+ spells c, cc, ... and not c+
Language(name) == IF Lower(name) = "c+" THEN {"c"} ELSE {Lower(name)}

\* { name: { $regex: new RegExp(`^${name}$`, 'i') } } selects stored
RegexMatches(name, stored) == Lower(stored) \in Language(name)

IdleCatReq == [pc |-> "idle", id |-> 0, name |-> "", parent |-> 0]

\* Category.findById(id)
CategoryExists(id) == id \in 1..Len(categories)

\* POST /api/categories up to its save: role and name checks and the lookup
\* of an existing category of that name
CreateCategoryFind(r, u, name, parent) ==
  /\ catReq[r].pc = "idle"
  /\ IF Role(u) # "admin"
     THEN /\ last' = Response("createCategory", "Forbidden")
          /\ UNCHANGED catReq
     ELSE IF name = ""
     THEN /\ last' = Response("createCategory", "InvalidInput")
          /\ UNCHANGED catReq
     ELSE IF \E id \in 1..Len(categories) : RegexMatches(name, categories[id].name)
     THEN /\ last' = Response("createCategory", "Conflict")
          /\ UNCHANGED catReq
     ELSE /\ catReq' = [catReq EXCEPT ![r] =
                          [pc |-> "save", id |-> 0, name |-> name, parent |-> parent]]
          /\ UNCHANGED last
  /\ UNCHANGED <<products, orders, req, carts, added, categories, quote>>
  /\ UNCHANGED lateVars

\* a category other than id is stored under exactly this name: the write is
\* one a unique index on name, if the Category schema declares one, turns down
NameStored(name, id) ==
  \E other \in 1..Len(categories) : other # id /\ categories[other].name = name

\* new Category({ name, ..., parentCategory: parentCategory || null }).save();
\* a save the store turns down ends in the catch block
CreateCategorySave(r) ==
  /\ catReq[r].pc = "save"
  /\ \/ /\ categories' = Append(categories,
                             [name |-> catReq[r].name, parent |-> catReq[r].parent])
        /\ last' = Response("createCategory", "Created")
     \/ /\ NameStored(catReq[r].name, 0)
        /\ UNCHANGED categories
        /\ last' = Response("createCategory", "Internal")
  /\ catReq' = [catReq EXCEPT ![r] = IdleCatReq]
  /\ UNCHANGED <<products, orders, req, carts, added, quote>>
  /\ UNCHANGED lateVars

\* PUT /api/categories/:id up to its write; a request without name ("")
\* skips the name lookup
UpdateCategoryFind(r, u, id, name, parent) ==
  /\ catReq[r].pc = "idle"
  /\ IF Role(u) # "admin"
     THEN /\ last' = Response("updateCategory", "Forbidden")
          /\ UNCHANGED catReq
     ELSE IF ~CategoryExists(id)
     THEN /\ last' = Response("updateCategory", "NotFound")
          /\ UNCHANGED catReq
     ELSE IF /\ name # ""
             /\ name # categories[id].name
             /\ \E other \in 1..Len(categories) :
                   other # id /\ RegexMatches(name, categories[other].name)
     THEN /\ last' = Response("updateCategory", "Conflict")
          /\ UNCHANGED catReq
     ELSE /\ catReq' = [catReq EXCEPT ![r] =
                          [pc |-> "write", id |-> id, name |-> name, parent |-> parent]]
          /\ UNCHANGED last
  /\ UNCHANGED <<products, orders, req, carts, added, categories, quote>>
  /\ UNCHANGED lateVars

\* Category.findByIdAndUpdate(id, { name, ..., parentCategory, ... }); a name
\* the request did not carry is left as stored
UpdateCategoryWrite(r) ==
  /\ catReq[r].pc = "write"
  /\ \/ /\ categories' = [categories EXCEPT ![catReq[r].id] =
                [name |-> IF catReq[r].name = "" THEN @.name ELSE catReq[r].name,
                 parent |-> catReq[r].parent]]
        /\ last' = Response("updateCategory", "OK")
     \/ /\ NameStored(catReq[r].name, catReq[r].id)
        /\ UNCHANGED categories
        /\ last' = Response("updateCategory", "Internal")
  /\ catReq' = [catReq EXCEPT ![r] = IdleCatReq]
  /\ UNCHANGED <<products, orders, req, carts, added, quote>>
  /\ UNCHANGED lateVars

\* the walk was cut off: it has gone deeper than there are categories, which
\* it does only when it goes round a cycle, and then it never returns
Unfinished == 0

\* Category.find({ parentCategory: categoryId }), in id order
Subcategories(categoryId) ==
  SelectSeq([id \in 1..Len(categories) |-> id],
            LAMBDA id : categories[id].parent = categoryId)

\* const getAllSubcategories = async (categoryId) => ...: the ids the walk
\* collects, the category first and then the walk of each subcategory; depth
\* counts the calls still allowed below this one
RECURSIVE GetAllSubcategories(_, _), WalkEach(_, _)
GetAllSubcategories(categoryId, depth) ==
  IF depth = 0 THEN <<Unfinished>>
  ELSE <<categoryId>> \o WalkEach(Subcategories(categoryId), depth - 1)

\* for (const sub of subcategories) allCategories = allCategories.concat(...)
WalkEach(subcategories, depth) ==
  IF subcategories = <<>> THEN <<>>
  ELSE GetAllSubcategories(Head(subcategories), depth)
       \o WalkEach(Tail(subcategories), depth)

\* const categoryIds = await getAllSubcategories(id)
CategoryIds(id) == GetAllSubcategories(id, Len(categories) + 1)

\* ---------------------------------------------------------------- shipping
\* const itemWeight = 0.5, in grams
ItemWeight == 500

\* the subtotal above which shipping is free, in currency units
FreeShippingThreshold == 50

\* shippingRates: base and perKg in hundredths of the currency unit
ShippingRates ==
  [standard  |-> [base |-> 599,  perKg |-> 250, maxDays |-> 7],
   express   |-> [base |-> 1299, perKg |-> 400, maxDays |-> 3],
   overnight |-> [base |-> 2499, perKg |-> 600, maxDays |-> 1]]

\* const rate = shippingRates[shippingMethod] || shippingRates.standard
RateOf(shippingMethod) ==
  IF shippingMethod \in DOMAIN ShippingRates
  THEN ShippingRates[shippingMethod]
  ELSE ShippingRates.standard

\* totalWeight += itemWeight * item.quantity, in grams
RECURSIVE TotalWeight(_)
TotalWeight(items) ==
  IF items = <<>> THEN 0
  ELSE ItemWeight * Head(items).quantity + TotalWeight(Tail(items))

\* totalValue += (item.price || 0) * item.quantity; a line without price
\* carries price 0
RECURSIVE TotalValue(_)
TotalValue(items) ==
  IF items = <<>> THEN 0
  ELSE Head(items).price * Head(items).quantity + TotalValue(Tail(items))

\* mutant of FreeShipping: a subtotal of exactly the threshold ships free
FreeShippingFromThreshold(totalValue) == totalValue >= FreeShippingThreshold

\* totalValue > 50
FreeShipping(totalValue) == totalValue > FreeShippingThreshold

\* rate.base + (totalWeight * rate.perKg), in hundredths
ShippingCost(rate, totalWeight) == rate.base + (totalWeight * rate.perKg) \div 1000

NoQuote == [shippingCost |-> 0, estimatedDays |-> 0, shippingMethod |-> "none",
            totalWeight |-> 0, freeShipping |-> FALSE]

IdleQuote == [pc |-> "idle", shippingMethod |-> "none", items |-> <<>>,
              destination |-> FALSE, code |-> "none", body |-> NoQuote]

\* a request POST /api/shipping/calculate has received; shippingMethod "none"
\* is a body without shippingMethod, destination FALSE one without destination
QuoteRequest(shippingMethod, items, destination) ==
  [IdleQuote EXCEPT !.pc = "asked", !.shippingMethod = shippingMethod,
                    !.items = items, !.destination = destination]

\* POST /api/shipping/calculate
CalculateShipping ==
  /\ quote.pc = "asked"
  /\ LET shippingMethod == IF quote.shippingMethod = "none" THEN "standard"
                           ELSE quote.shippingMethod
         totalWeight == TotalWeight(quote.items)
         totalValue  == TotalValue(quote.items)
         rate        == RateOf(shippingMethod)
         code == IF Len(quote.items) = 0 \/ ~quote.destination
                 THEN "InvalidInput" ELSE "OK"
     IN /\ quote' = [quote EXCEPT
               !.pc = "answered",
               !.code = code,
               !.body = IF code # "OK" THEN NoQuote
                        ELSE [shippingCost |-> IF FreeShipping(totalValue) THEN 0
                                               ELSE ShippingCost(rate, totalWeight),
                              estimatedDays |-> rate.maxDays,
                              shippingMethod |-> shippingMethod,
                              totalWeight |-> totalWeight,
                              freeShipping |-> FreeShipping(totalValue)]]
        /\ last' = Response("shipping", code)
  /\ UNCHANGED <<products, orders, req, carts, added, categories, catReq>>
  /\ UNCHANGED lateVars

\* ---------------------------------------------------------------- analytics
\* mutant of CountsAsRevenue: shipped orders count too
CountsAsRevenueOnceShipped(status) == status \in {"paid", "shipped", "delivered"}

\* { $match: { status: { $in: ['paid', 'delivered'] } } }
CountsAsRevenue(status) == status \in {"paid", "delivered"}

\* { $group: { _id: null, total: { $sum: '$total' } } }
RECURSIVE SumTotal(_)
SumTotal(matched) ==
  IF matched = <<>> THEN 0 ELSE Head(matched).total + SumTotal(Tail(matched))

\* totalRevenue[0]?.total || 0
TotalRevenue ==
  LET matched == SelectSeq(orders, LAMBDA order : CountsAsRevenue(order.status))
  IN IF matched = <<>> THEN 0 ELSE SumTotal(matched)

\* GET /api/admin/analytics behind the isAdmin middleware
Analytics(u) ==
  /\ last' = IF Role(u) # "admin"
             THEN Response("analytics", "Forbidden")
             ELSE [op |-> "analytics", code |-> "OK",
                   body |-> [totalProducts |-> Cardinality({id \in 1..Len(products) :
                                                              products[id].exists}),
                             totalOrders |-> Len(orders),
                             totalRevenue |-> TotalRevenue]]
  /\ UNCHANGED <<products, orders, req, carts, added, categories, catReq, quote>>
  /\ UNCHANGED lateVars

\* ---------------------------------------------------------------- accounts
\* async function isAdmin(req, res, next)
IsAdmin(u) == UserExists(u) /\ Role(u) = "admin"

\* User.findByIdAndUpdate(req.params.id, { isBlocked })
SetBlocked(op, u, target, isBlocked) ==
  /\ IF ~IsAdmin(u)
     THEN /\ last' = Response(op, "Forbidden")
          /\ UNCHANGED users
     ELSE IF ~UserExists(target)
     THEN /\ last' = Response(op, "NotFound")
          /\ UNCHANGED users
     ELSE /\ users' = [users EXCEPT ![target].isBlocked = isBlocked]
          /\ last' = Response(op, "OK")
  /\ UNCHANGED <<products, orders, req, carts, added, categories, catReq, quote>>
  /\ UNCHANGED <<ledger, addresses, notifications>>

\* PATCH /api/admin/users/:id/block
BlockUser(u, target) == SetBlocked("block", u, target, TRUE)

\* PATCH /api/admin/users/:id/unblock
UnblockUser(u, target) == SetBlocked("unblock", u, target, FALSE)

\* DELETE /api/admin/users/:id
DeleteUser(u, target) ==
  /\ IF ~IsAdmin(u)
     THEN /\ last' = Response("deleteUser", "Forbidden")
          /\ UNCHANGED users
     ELSE IF ~UserExists(target)
     THEN /\ last' = Response("deleteUser", "NotFound")
          /\ UNCHANGED users
     ELSE /\ users' = [users EXCEPT ![target] = [exists |-> FALSE, isBlocked |-> FALSE]]
          /\ last' = Response("deleteUser", "OK")
  /\ UNCHANGED <<products, orders, req, carts, added, categories, catReq, quote>>
  /\ UNCHANGED <<ledger, addresses, notifications>>

\* ---------------------------------------------------------------- addresses
\* user.addresses.forEach(addr => addr.isDefault = false)
ClearDefaults(addrs) == [i \in 1..Len(addrs) |-> [addrs[i] EXCEPT !.isDefault = FALSE]]

\* user.addresses.forEach((addr, index) => { if (index !== addressIndex) ... })
ClearOtherDefaults(addrs, addressIndex) ==
  [i \in 1..Len(addrs) |->
     IF i # addressIndex THEN [addrs[i] EXCEPT !.isDefault = FALSE] ELSE addrs[i]]

\* user.addresses.splice(addressIndex, 1)
Splice(addrs, addressIndex) ==
  SubSeq(addrs, 1, addressIndex - 1) \o SubSeq(addrs, addressIndex + 1, Len(addrs))

\* user.addresses.findIndex(...) has found the address: addressIndex !== -1
\* (the positions count from 1, and 0 stands for an id no address has)
AddressFound(u, addressIndex) == addressIndex \in 1..Len(addresses[u])

\* POST /api/shipping/address; the street stands for the required fields
SaveAddress(u, street, isDefault) ==
  /\ IF street = ""
     THEN /\ last' = Response("saveAddress", "InvalidInput")
          /\ UNCHANGED addresses
     ELSE IF ~UserExists(u)
     THEN /\ last' = Response("saveAddress", "NotFound")
          /\ UNCHANGED addresses
     ELSE /\ addresses' = [addresses EXCEPT ![u] =
                IF Len(@) = 0 \/ isDefault
                THEN Append(ClearDefaults(@), [street |-> street, isDefault |-> TRUE])
                ELSE Append(@, [street |-> street, isDefault |-> isDefault])]
          /\ last' = Response("saveAddress", "OK")
  /\ UNCHANGED <<products, orders, req, carts, added, categories, catReq, quote>>
  /\ UNCHANGED <<users, ledger, notifications>>

\* PUT /api/shipping/addresses/:id
UpdateAddress(u, addressIndex, street, isDefault) ==
  /\ IF ~UserExists(u) \/ ~AddressFound(u, addressIndex)
     THEN /\ last' = Response("updateAddress", "NotFound")
          /\ UNCHANGED addresses
     ELSE /\ addresses' = [addresses EXCEPT ![u] =
                LET updated == [@ EXCEPT ![addressIndex] =
                                  [street |-> street, isDefault |-> isDefault]]
                IN IF isDefault THEN ClearOtherDefaults(updated, addressIndex)
                   ELSE updated]
          /\ last' = Response("updateAddress", "OK")
  /\ UNCHANGED <<products, orders, req, carts, added, categories, catReq, quote>>
  /\ UNCHANGED <<users, ledger, notifications>>

\* DELETE /api/shipping/addresses/:id
DeleteAddress(u, addressIndex) ==
  /\ IF ~UserExists(u) \/ ~AddressFound(u, addressIndex)
     THEN /\ last' = Response("deleteAddress", "NotFound")
          /\ UNCHANGED addresses
     ELSE /\ addresses' = [addresses EXCEPT ![u] =
                LET deletedAddress == @[addressIndex]
                    rest == Splice(@, addressIndex)
                IN IF deletedAddress.isDefault /\ Len(rest) > 0
                   THEN [rest EXCEPT ![1].isDefault = TRUE]
                   ELSE rest]
          /\ last' = Response("deleteAddress", "OK")
  /\ UNCHANGED <<products, orders, req, carts, added, categories, catReq, quote>>
  /\ UNCHANGED <<users, ledger, notifications>>

\* PATCH /api/shipping/addresses/:id/default
SetDefaultAddress(u, addressIndex) ==
  /\ IF ~UserExists(u) \/ ~AddressFound(u, addressIndex)
     THEN /\ last' = Response("setDefaultAddress", "NotFound")
          /\ UNCHANGED addresses
     ELSE /\ addresses' = [addresses EXCEPT ![u] =
                [ClearDefaults(@) EXCEPT ![addressIndex].isDefault = TRUE]]
          /\ last' = Response("setDefaultAddress", "OK")
  /\ UNCHANGED <<products, orders, req, carts, added, categories, catReq, quote>>
  /\ UNCHANGED <<users, ledger, notifications>>

\* ---------------------------------------------------------------- notifications
\* the routes of the notification router, in the order of their registration
NotificationRoutes ==
  <<[method |-> "GET",    path |-> <<>>,               handler |-> "list"],
    [method |-> "PATCH",  path |-> <<":id", "read">>,  handler |-> "read"],
    [method |-> "PATCH",  path |-> <<"read-all">>,     handler |-> "readAll"],
    [method |-> "DELETE", path |-> <<":id">>,          handler |-> "delete"],
    [method |-> "DELETE", path |-> <<"clear">>,        handler |-> "clear"]>>

\* a route matches a request of its method whose path has its segments, a
\* parameter segment standing for any one segment
RouteMatches(route, method, path) ==
  /\ route.method = method
  /\ Len(route.path) = Len(path)
  /\ \A i \in 1..Len(path) : route.path[i] = ":id" \/ route.path[i] = path[i]

\* the router hands the request to the first route registered that matches
\* it; 0 when none does
MatchingRoute(method, path) ==
  LET matching == {i \in 1..Len(NotificationRoutes) :
                     RouteMatches(NotificationRoutes[i], method, path)}
  IN IF matching = {} THEN 0
     ELSE CHOOSE i \in matching : \A j \in matching : i <= j

\* GET /api/notifications
GetNotifications(u) ==
  /\ last' = Response("listNotifications", IF UserExists(u) THEN "OK" ELSE "NotFound")
  /\ UNCHANGED notifications

\* PATCH /api/notifications/:id/read
MarkNotificationRead(u, notificationId) ==
  IF \/ ~UserExists(u)
     \/ ~\E i \in 1..Len(notifications[u]) : notifications[u][i].id = notificationId
  THEN /\ last' = Response("readNotification", "NotFound")
       /\ UNCHANGED notifications
  ELSE /\ notifications' = [notifications EXCEPT ![u] =
             [i \in 1..Len(@) |->
                IF i = CHOOSE j \in 1..Len(@) :
                         /\ @[j].id = notificationId
                         /\ \A k \in 1..(j - 1) : @[k].id # notificationId
                THEN [@[i] EXCEPT !.isRead = TRUE]
                ELSE @[i]]]
       /\ last' = Response("readNotification", "OK")

\* PATCH /api/notifications/read-all
MarkAllNotificationsRead(u) ==
  IF ~UserExists(u)
  THEN /\ last' = Response("readAllNotifications", "NotFound")
       /\ UNCHANGED notifications
  ELSE /\ notifications' = [notifications EXCEPT ![u] =
             [i \in 1..Len(@) |-> [@[i] EXCEPT !.isRead = TRUE]]]
       /\ last' = Response("readAllNotifications", "OK")

\* DELETE /api/notifications/:id
DeleteNotification(u, notificationId) ==
  IF ~UserExists(u)
  THEN /\ last' = Response("deleteNotification", "NotFound")
       /\ UNCHANGED notifications
  ELSE /\ notifications' = [notifications EXCEPT ![u] =
             SelectSeq(@, LAMBDA n : n.id # notificationId)]
       /\ last' = Response("deleteNotification", "OK")

\* DELETE /api/notifications/clear
ClearNotifications(u) ==
  IF ~UserExists(u)
  THEN /\ last' = Response("clearNotifications", "NotFound")
       /\ UNCHANGED notifications
  ELSE /\ notifications' = [notifications EXCEPT ![u] = <<>>]
       /\ last' = Response("clearNotifications", "OK")

\* a request to /api/notifications, handled by the route the router picks
NotificationRequest(u, method, path) ==
  /\ LET route == MatchingRoute(method, path)
         handler == IF route = 0 THEN "none" ELSE NotificationRoutes[route].handler
     IN IF handler = "list" THEN GetNotifications(u)
        ELSE IF handler = "read" THEN MarkNotificationRead(u, path[1])
        ELSE IF handler = "readAll" THEN MarkAllNotificationsRead(u)
        ELSE IF handler = "delete" THEN DeleteNotification(u, path[1])
        ELSE IF handler = "clear" THEN ClearNotifications(u)
        ELSE /\ last' = Response("notifications", "NotFound")
             /\ UNCHANGED notifications
  /\ UNCHANGED <<products, orders, req, carts, added, categories, catReq, quote>>
  /\ UNCHANGED <<users, ledger, addresses>>

\* ---------------------------------------------------------------- Init
Init ==
  /\ products = <<>>
  /\ orders = <<>>
  /\ req = [r \in Slots |-> IdleReq]
  /\ last = NoResponse
  /\ carts = [c \in Customers |-> NoCart]
  /\ added = [c \in Customers |-> [p \in CartProductRefs |-> 0]]
  /\ categories = <<>>
  /\ catReq = [r \in Slots |-> IdleCatReq]
  /\ users = [u \in Users |-> [exists |-> TRUE, isBlocked |-> FALSE]]
  /\ ledger = <<>>
  /\ addresses = [c \in Customers |-> <<>>]
  /\ notifications = [c \in Customers |-> <<>>]
  /\ quote = IdleQuote

\* ---------------------------------------------------------------- inputs
\* request bodies: items: [{ product, quantity }]
Lines(ids, quantities) == [product : ids, quantity : quantities]

ItemLists(lines, n) == UNION {[1..k -> lines] : k \in 0..n}

ProductRefs == 1..MaxProducts
OrderRefs   == 1..MaxOrders
Quantities  == 1..MaxQty
Stocks      == 0..MaxStock

\* ---------------------------------------------------------------- Spec
\* the collections stay within the bounds
CatalogRoom == Len(products) < MaxProducts
OrderRoom   == Len(orders) + Cardinality(InFlight) < MaxOrders

\* The whole store under every handler; one placement request at a time
\* interleaves with the single-step handlers.
Next ==
  \/ \E u \in Vendors, stock \in Stocks :
       CatalogRoom /\ CreateProduct(u, 10, 0, stock)
  \/ \E u \in Vendors \cup Admins, id \in ProductRefs, stock \in -1..MaxStock :
       UpdateProduct(u, id, 10, 0, stock)
  \/ \E u \in Vendors, id \in ProductRefs, stock \in Stocks :
       UpdateProductStock(u, id, stock)
  \/ \E u \in Customers,
        items \in ItemLists(Lines(ProductRefs, Quantities), MaxLifecycleItems) :
       OrderRoom /\ PlaceOrderBegin("r1", u, items, FALSE)
  \/ PlaceOrderFind("r1")
  \/ PlaceOrderUpdateStock("r1")
  \/ PlaceOrderSave("r1")
  \/ \E u \in Users, o \in OrderRefs : CancelOrder(u, o)
  \/ \E u \in Users, o \in OrderRefs : PayOrder(u, o)
  \/ \E u \in Users, o \in OrderRefs, status \in VendorStatuses :
       UpdateOrderStatus(u, o, status)
  \/ \E u \in Users, o \in OrderRefs, status \in Statuses, total \in {0, 1000} :
       AdminUpdateOrder(u, o, status, total)
  \/ \E u \in Users, o \in OrderRefs : ConfirmPayment(u, o)
  \/ \E u \in Users, o \in OrderRefs, amount \in {0, 1000, 2000} :
       ProcessRefund(u, o, amount)
  \/ \E o \in OrderRefs, type \in WebhookTypes : PaymentWebhook(o, type)

Spec == Init /\ [][Next]_vars

\* ---------------------------------------------------------------- SpecRace
\* Two placement requests, one per slot, against products created with one
\* unit in stock; nothing else writes the store.
NextRace ==
  \/ CatalogRoom /\ CreateProduct("v1", 10, 0, 1)
  \/ \E r \in Slots, u \in Customers,
        items \in ItemLists(Lines(ProductRefs, Quantities), MaxItems) :
       PlaceOrderBegin(r, u, items, TRUE)
  \/ \E r \in Slots : PlaceOrderFind(r)
  \/ \E r \in Slots : PlaceOrderUpdateStock(r)
  \/ \E r \in Slots : PlaceOrderSave(r)

SpecRace == Init /\ [][NextRace]_vars

\* ---------------------------------------------------------------- SpecSeq
\* Placement requests run one at a time, from the first check to the
\* response, with no other handler in between.  The handler never reads the
\* order collection, so requests are placed until one is persisted.
Quiet == InFlight = {}

\* price and offer of the products on sale
Listings == {<<20, 0>>, <<10, 50>>}

NextSeq ==
  \/ \E l \in Listings, stock \in Stocks :
       CatalogRoom /\ Quiet /\ CreateProduct("v1", l[1], l[2], stock)
  \/ \E u \in {"c1", "v1"},
        items \in ItemLists(Lines(ProductRefs, Quantities), MaxItems) :
       orders = <<>> /\ PlaceOrderBegin("r1", u, items, TRUE)
  \/ PlaceOrderFind("r1")
  \/ PlaceOrderUpdateStock("r1")
  \/ PlaceOrderSave("r1")
  \/ PlaceOrderRespond("r1")

SpecSeq == Init /\ [][NextSeq]_vars

\* ---------------------------------------------------------------- SpecRefund
\* Orders of one unit are placed, paid and refunded; the products are on
\* sale at two prices or given away (offer 100).
RefundListings == {<<10, 0>>, <<20, 0>>, <<10, 100>>}
RefundAmounts  == {0, 500, 1000, 1500, 2000, 2500}

NextRefund ==
  \/ \E l \in RefundListings :
       CatalogRoom /\ CreateProduct("v1", l[1], l[2], MaxStock)
  \/ \E id \in ProductRefs :
       OrderRoom /\ PlaceOrderBegin("r1", "c1", <<[product |-> id, quantity |-> 1]>>, FALSE)
  \/ PlaceOrderFind("r1")
  \/ PlaceOrderUpdateStock("r1")
  \/ PlaceOrderSave("r1")
  \/ \E o \in OrderRefs : PayOrder("c1", o)
  \/ \E o \in OrderRefs : ConfirmPayment("c1", o)
  \/ \E o \in OrderRefs, type \in WebhookTypes : PaymentWebhook(o, type)
  \/ \E u \in {"c1", "c2", "v1", "a1"}, o \in OrderRefs, amount \in RefundAmounts :
       ProcessRefund(u, o, amount)

SpecRefund == Init /\ [][NextRefund]_vars

\* ---------------------------------------------------------------- SpecCatalog
\* The product handlers alone: products are created, updated, repriced and
\* deleted by vendors, an admin and (in vain) a customer.
CatalogUsers  == {"v1", "v2", "a1", "c1"}
CatalogPrices == {10, 20}
CatalogOffers == {0, 50}
CatalogStocks == {1}

NextCatalog ==
  \/ \E u \in CatalogUsers, price \in CatalogPrices, offer \in CatalogOffers,
        stock \in CatalogStocks :
       CatalogRoom /\ CreateProduct(u, price, offer, stock)
  \/ \E u \in CatalogUsers, id \in ProductRefs, price \in CatalogPrices,
        offer \in CatalogOffers, stock \in CatalogStocks :
       UpdateProduct(u, id, price, offer, stock)
  \/ \E u \in CatalogUsers, id \in ProductRefs, offer \in {-1, 50, 100, 101} :
       UpdateProductOffer(u, id, offer)
  \/ \E u \in CatalogUsers, id \in ProductRefs : DeleteProduct(u, id)

SpecCatalog == Init /\ [][NextCatalog]_vars

\* ---------------------------------------------------------------- SpecOffer
\* Products are repriced between placement requests of one unit; a request
\* runs from its first check to its response with no product write in between.
NextOffer ==
  \/ \E offer \in {0, 50} :
       CatalogRoom /\ Quiet /\ CreateProduct("v1", 10, offer, MaxStock)
  \/ \E id \in ProductRefs, price \in {-5, 10}, offer \in {0, 150} :
       Quiet /\ UpdateProduct("v1", id, price, offer, MaxStock)
  \/ \E u \in Vendors, id \in ProductRefs, offer \in {-1, 50, 100, 101} :
       Quiet /\ UpdateProductOffer(u, id, offer)
  \/ \E id \in ProductRefs :
       /\ orders = <<>>
       /\ PlaceOrderBegin("r1", "c1", <<[product |-> id, quantity |-> 1]>>, TRUE)
  \/ PlaceOrderFind("r1")
  \/ PlaceOrderUpdateStock("r1")
  \/ PlaceOrderSave("r1")
  \/ PlaceOrderRespond("r1")

SpecOffer == Init /\ [][NextOffer]_vars

\* ---------------------------------------------------------------- SpecCart
\* One customer's cart under add, remove and clear requests; a vendor's
\* requests are turned away.  The quantity a cart holds of one product is
\* capped at MaxCartQty.
CartUsers == {"c1", "v1"}

CartQuantityRoom(u, product, quantity) ==
  (u \in Customers /\ product \in CartProductRefs /\ quantity >= 1)
    => added[u][product] + quantity <= MaxCartQty

NextCart ==
  \/ \E u \in CartUsers, product \in CartProductRefs \cup {Missing},
        quantity \in -1..MaxQty :
       CartQuantityRoom(u, product, quantity) /\ CartAdd(u, product, quantity)
  \/ \E u \in CartUsers, product \in CartProductRefs : CartRemove(u, product)
  \/ \E u \in CartUsers : CartClear(u)

SpecCart == Init /\ [][NextCart]_vars

\* ---------------------------------------------------------------- SpecCategory
\* Category create and update requests of an admin (and, in vain, a vendor),
\* two at a time, interleaved at their store round trips.
CategoryUsers == {"a1", "v1"}
CategoryRefs  == 1..MaxCategories

CategoryRoom ==
  Len(categories) + Cardinality({r \in Slots : catReq[r].pc = "save"}) < MaxCategories

NextCategory ==
  \/ \E r \in Slots, u \in CategoryUsers, name \in CategoryNames \cup {""} :
       CategoryRoom /\ CreateCategoryFind(r, u, name, 0)
  \/ \E r \in Slots : CreateCategorySave(r)
  \/ \E r \in Slots, u \in CategoryUsers, id \in CategoryRefs,
        name \in CategoryNames \cup {""} :
       UpdateCategoryFind(r, u, id, name, 0)
  \/ \E r \in Slots : UpdateCategoryWrite(r)

SpecCategory == Init /\ [][NextCategory]_vars

\* ---------------------------------------------------------------- SpecShipping
\* One shipping cost request, drawn from the bounded request bodies, is
\* answered.
ShippingMethods == {"standard", "express", "overnight", "drone", "none"}
ShippingPrices  == {0, 10, 25, 30}
ShippingLines   == [price : ShippingPrices, quantity : Quantities]

InitShipping ==
  /\ products = <<>>
  /\ orders = <<>>
  /\ req = [r \in Slots |-> IdleReq]
  /\ last = NoResponse
  /\ carts = [c \in Customers |-> NoCart]
  /\ added = [c \in Customers |-> [p \in CartProductRefs |-> 0]]
  /\ categories = <<>>
  /\ catReq = [r \in Slots |-> IdleCatReq]
  /\ users = [u \in Users |-> [exists |-> TRUE, isBlocked |-> FALSE]]
  /\ ledger = <<>>
  /\ addresses = [c \in Customers |-> <<>>]
  /\ notifications = [c \in Customers |-> <<>>]
  /\ quote \in {QuoteRequest(shippingMethod, items, destination) :
                  shippingMethod \in ShippingMethods,
                  items \in ItemLists(ShippingLines, MaxItems),
                  destination \in BOOLEAN}

NextShipping == CalculateShipping

SpecShipping == InitShipping /\ [][NextShipping]_vars

\* ---------------------------------------------------------------- SpecAnalytics
\* Orders of one product are placed one request at a time, paid, shipped,
\* delivered, cancelled and marked refunded, and the admin (and, in vain, a
\* vendor) asks for the analytics in between.
AnalyticsOrderRefs == 1..(MaxOrders + 1)

NextAnalytics ==
  \/ products = <<>> /\ CreateProduct("v1", 10, 0, MaxStock)
  \/ \E quantity \in Quantities :
       /\ Len(orders) + Cardinality(InFlight) < MaxOrders + 1
       /\ PlaceOrderBegin("r1", "c1", <<[product |-> 1, quantity |-> quantity]>>, FALSE)
  \/ PlaceOrderFind("r1")
  \/ PlaceOrderUpdateStock("r1")
  \/ PlaceOrderSave("r1")
  \/ \E o \in AnalyticsOrderRefs : OrderExists(o) /\ PayOrder("c1", o)
  \/ \E o \in AnalyticsOrderRefs, status \in VendorStatuses :
       OrderExists(o) /\ UpdateOrderStatus("v1", o, status)
  \/ \E o \in AnalyticsOrderRefs :
       OrderExists(o) /\ AdminUpdateOrder("a1", o, "refunded", orders[o].total)
  \/ \E u \in {"a1", "v1"} : Analytics(u)

SpecAnalytics == Init /\ [][NextAnalytics]_vars

\* ---------------------------------------------------------------- SpecCancel
\* Vendors list and withdraw products of one unit, customers order them and
\* pay, and every user asks for the cancellation of the orders.
NextCancel ==
  \/ \E u \in Vendors : CatalogRoom /\ Quiet /\ CreateProduct(u, 10, 0, 1)
  \/ \E u \in Vendors, id \in ProductRefs :
       Quiet /\ ProductExists(id) /\ DeleteProduct(u, id)
  \/ \E u \in Customers,
        items \in ItemLists(Lines(ProductRefs, {1}), MaxLifecycleItems) :
       OrderRoom /\ PlaceOrderBegin("r1", u, items, FALSE)
  \/ PlaceOrderFind("r1")
  \/ PlaceOrderUpdateStock("r1")
  \/ PlaceOrderSave("r1")
  \/ \E o \in OrderRefs :
       OrderExists(o) /\ orders[o].status = "pending" /\ PayOrder(orders[o].customer, o)
  \/ \E u \in Users, o \in OrderRefs : CancelOrder(u, o)

SpecCancel == Init /\ [][NextCancel]_vars

\* ---------------------------------------------------------------- SpecQty
\* Placement requests whose lines ask for a quantity of -1, 0 or 1, one
\* request at a time.
LineQuantities == -1..1

NextQty ==
  \/ \E stock \in Stocks : CatalogRoom /\ Quiet /\ CreateProduct("v1", 10, 0, stock)
  \/ \E items \in ItemLists(Lines(ProductRefs, LineQuantities), MaxItems) :
       orders = <<>> /\ PlaceOrderBegin("r1", "c1", items, TRUE)
  \/ PlaceOrderFind("r1")
  \/ PlaceOrderUpdateStock("r1")
  \/ PlaceOrderSave("r1")
  \/ PlaceOrderRespond("r1")

SpecQty == Init /\ [][NextQty]_vars

\* ---------------------------------------------------------------- SpecOrders
\* Orders of one unit placed by either customer and then taken through every
\* handler that writes an order: cancel, self-pay, vendor status, admin
\* update, payment confirm, refund and the payment webhook.
NextOrders ==
  \/ products = <<>> /\ CreateProduct("v1", 10, 0, MaxStock)
  \/ \E u \in Customers :
       OrderRoom /\ PlaceOrderBegin("r1", u, <<[product |-> 1, quantity |-> 1]>>, FALSE)
  \/ PlaceOrderFind("r1")
  \/ PlaceOrderUpdateStock("r1")
  \/ PlaceOrderSave("r1")
  \/ \E u \in {"c1", "v1", "a1"}, o \in OrderRefs :
       OrderExists(o) /\ CancelOrder(u, o)
  \/ \E o \in OrderRefs : OrderExists(o) /\ PayOrder(orders[o].customer, o)
  \/ \E o \in OrderRefs, status \in VendorStatuses :
       OrderExists(o) /\ UpdateOrderStatus("v1", o, status)
  \/ \E o \in OrderRefs, status \in Statuses :
       OrderExists(o) /\ AdminUpdateOrder("a1", o, status, orders[o].total)
  \/ \E o \in OrderRefs : OrderExists(o) /\ ConfirmPayment(orders[o].customer, o)
  \/ \E o \in OrderRefs :
       OrderExists(o) /\ ProcessRefund("a1", o, orders[o].total)
  \/ \E o \in OrderRefs, type \in WebhookTypes :
       OrderExists(o) /\ PaymentWebhook(o, type)

SpecOrders == Init /\ [][NextOrders]_vars

\* ---------------------------------------------------------------- SpecBlock
\* An admin blocks, unblocks and deletes a customer and a vendor, who go on
\* sending order requests with the credentials they hold; the admin acts
\* between the requests, not during one.
NextBlock ==
  \/ products = <<>> /\ CreateProduct("v1", 10, 0, MaxStock)
  \/ \E u \in {"a1", "c2"}, target \in {"c1", "v1"} :
       InFlight = {} /\ BlockUser(u, target)
  \/ \E target \in {"c1", "v1"} : InFlight = {} /\ UnblockUser("a1", target)
  \/ \E target \in {"c1", "v1"} : InFlight = {} /\ DeleteUser("a1", target)
  \/ /\ OrderRoom
     /\ Authenticated("c1")
     /\ PlaceOrderBegin("r1", "c1", <<[product |-> 1, quantity |-> 1]>>, FALSE)
  \/ PlaceOrderFind("r1")
  \/ PlaceOrderUpdateStock("r1")
  \/ PlaceOrderSave("r1")
  \/ \E u \in {"c1", "v1"}, o \in OrderRefs :
       Authenticated(u) /\ OrderExists(o) /\ CancelOrder(u, o)
  \/ \E o \in OrderRefs : Authenticated("c1") /\ OrderExists(o) /\ PayOrder("c1", o)
  \/ \E o \in OrderRefs, status \in VendorStatuses :
       Authenticated("v1") /\ OrderExists(o) /\ UpdateOrderStatus("v1", o, status)

SpecBlock == Init /\ [][NextBlock]_vars

\* ---------------------------------------------------------------- SpecRestore
\* the store with the history of every order kept on the ledger
InitLedger ==
  /\ products = <<>>
  /\ orders = <<>>
  /\ req = [r \in Slots |-> IdleReq]
  /\ last = NoResponse
  /\ carts = [c \in Customers |-> NoCart]
  /\ added = [c \in Customers |-> [p \in CartProductRefs |-> 0]]
  /\ categories = <<>>
  /\ catReq = [r \in Slots |-> IdleCatReq]
  /\ quote = IdleQuote
  /\ users = [u \in Users |-> [exists |-> TRUE, isBlocked |-> FALSE]]
  /\ ledger = [o \in OrderRefs |-> [refunded |-> 0, restored |-> 0]]
  /\ addresses = [c \in Customers |-> <<>>]
  /\ notifications = [c \in Customers |-> <<>>]

\* Orders of one unit are placed, paid by self-pay or payment confirm,
\* cancelled and moved on by the vendor; nobody writes the stock directly.
NextRestore ==
  \/ \E u \in Vendors : CatalogRoom /\ CreateProduct(u, 10, 0, InitialStock)
  \/ \E u \in Customers, id \in ProductRefs :
       OrderRoom /\ PlaceOrderBegin("r1", u, <<[product |-> id, quantity |-> 1]>>, FALSE)
  \/ PlaceOrderFind("r1")
  \/ PlaceOrderUpdateStock("r1")
  \/ PlaceOrderSave("r1")
  \/ \E o \in OrderRefs : OrderExists(o) /\ PayOrder(orders[o].customer, o)
  \/ \E o \in OrderRefs : OrderExists(o) /\ ConfirmPayment(orders[o].customer, o)
  \/ \E u \in {"c1", "v1", "a1"}, o \in OrderRefs : OrderExists(o) /\ CancelOrder(u, o)
  \/ \E o \in OrderRefs, status \in VendorStatuses :
       OrderExists(o) /\ UpdateOrderStatus("v1", o, status)

SpecRestore == InitLedger /\ [][NextRestore]_vars

\* ---------------------------------------------------------------- SpecLedger
\* Orders of one unit are placed, paid and refunded in parts or in full, by
\* the customer or the admin, and every refund reported as succeeded is added
\* up on the ledger.
LedgerRoom(o, amount) ==
  o \in DOMAIN ledger => ledger[o].refunded + amount <= MaxRefunded

NextLedger ==
  \/ \E l \in RefundListings :
       CatalogRoom /\ CreateProduct("v1", l[1], l[2], MaxStock)
  \/ \E u \in Customers, id \in ProductRefs :
       OrderRoom /\ PlaceOrderBegin("r1", u, <<[product |-> id, quantity |-> 1]>>, FALSE)
  \/ PlaceOrderFind("r1")
  \/ PlaceOrderUpdateStock("r1")
  \/ PlaceOrderSave("r1")
  \/ \E o \in OrderRefs : OrderExists(o) /\ ConfirmPayment(orders[o].customer, o)
  \/ \E o \in OrderRefs, type \in WebhookTypes :
       OrderExists(o) /\ PaymentWebhook(o, type)
  \/ \E u \in {"c1", "c2", "a1"}, o \in OrderRefs, amount \in {500, 1000, 2000} :
       OrderExists(o) /\ LedgerRoom(o, amount) /\ ProcessRefund(u, o, amount)

SpecLedger == InitLedger /\ [][NextLedger]_vars

\* ---------------------------------------------------------------- SpecForest
\* An admin creates categories under a stored parent or under none and moves
\* them under another parent, one request at a time.
ForestNames == {"books", "c+"}
ParentRefs  == 0..MaxCategories

NextForest ==
  \/ \E name \in ForestNames, parent \in ParentRefs :
       /\ CategoryRoom
       /\ parent = 0 \/ CategoryExists(parent)
       /\ CreateCategoryFind("r1", "a1", name, parent)
  \/ CreateCategorySave("r1")
  \/ \E id \in CategoryRefs, parent \in ParentRefs :
       UpdateCategoryFind("r1", "a1", id, "", parent)
  \/ UpdateCategoryWrite("r1")

SpecForest == Init /\ [][NextForest]_vars

\* ---------------------------------------------------------------- SpecAddress
\* The customers save, update, delete and mark as default their shipping
\* addresses, one request after the other.
Streets     == {"1 Main St", "2 High St"}
AddressRefs == 0..MaxAddresses

AddressRoom(u) == Len(addresses[u]) < MaxAddresses

NextAddress ==
  \/ \E u \in Customers, street \in Streets \cup {""}, isDefault \in BOOLEAN :
       AddressRoom(u) /\ SaveAddress(u, street, isDefault)
  \/ \E u \in Customers, addressIndex \in AddressRefs, street \in Streets,
        isDefault \in BOOLEAN :
       UpdateAddress(u, addressIndex, street, isDefault)
  \/ \E u \in Customers, addressIndex \in AddressRefs : DeleteAddress(u, addressIndex)
  \/ \E u \in Customers, addressIndex \in AddressRefs : SetDefaultAddress(u, addressIndex)

SpecAddress == Init /\ [][NextAddress]_vars

\* ---------------------------------------------------------------- SpecNotify
\* Customers who have received up to two notifications send requests to the
\* notification router.
NotificationIds == {"n1", "n2"}

\* the lists a user can hold: unread notifications with distinct ids
NotificationLists ==
  {<<>>} \cup {<<[id |-> a, isRead |-> FALSE]>> : a \in NotificationIds}
         \cup UNION {{<<[id |-> a, isRead |-> FALSE], [id |-> b, isRead |-> FALSE]>> :
                         b \in NotificationIds \ {a}} : a \in NotificationIds}

NotificationMethods == {"GET", "PATCH", "DELETE"}
NotificationPaths ==
  {<<>>, <<"read-all">>, <<"clear">>}
    \cup {<<id>> : id \in NotificationIds}
    \cup {<<id, "read">> : id \in NotificationIds}

InitNotify ==
  /\ products = <<>>
  /\ orders = <<>>
  /\ req = [r \in Slots |-> IdleReq]
  /\ last = NoResponse
  /\ carts = [c \in Customers |-> NoCart]
  /\ added = [c \in Customers |-> [p \in CartProductRefs |-> 0]]
  /\ categories = <<>>
  /\ catReq = [r \in Slots |-> IdleCatReq]
  /\ quote = IdleQuote
  /\ users = [u \in Users |-> [exists |-> TRUE, isBlocked |-> FALSE]]
  /\ ledger = <<>>
  /\ addresses = [c \in Customers |-> <<>>]
  /\ notifications \in [Customers -> NotificationLists]

NextNotify ==
  \E u \in Customers, method \in NotificationMethods, path \in NotificationPaths :
     NotificationRequest(u, method, path)

SpecNotify == InitNotify /\ [][NextNotify]_vars

\* ---------------------------------------------------------------- SpecRefundGate
\* Orders of one unit are placed by either customer, paid or not, and every
\* kind of user asks for a refund of nothing, of 10.00 or of 20.00.
GateAmounts == {0, 1000, 2000}

NextRefundGate ==
  \/ \E l \in RefundListings :
       products = <<>> /\ CreateProduct("v1", l[1], l[2], MaxStock)
  \/ \E u \in Customers :
       OrderRoom /\ PlaceOrderBegin("r1", u, <<[product |-> 1, quantity |-> 1]>>, FALSE)
  \/ PlaceOrderFind("r1")
  \/ PlaceOrderUpdateStock("r1")
  \/ PlaceOrderSave("r1")
  \/ \E o \in OrderRefs : OrderExists(o) /\ PayOrder(orders[o].customer, o)
  \/ \E o \in OrderRefs : OrderExists(o) /\ ConfirmPayment(orders[o].customer, o)
  \/ \E o \in OrderRefs, type \in WebhookTypes :
       OrderExists(o) /\ PaymentWebhook(o, type)
  \/ \E u \in {"c1", "c2", "v1", "a1"}, o \in OrderRefs, amount \in GateAmounts :
       OrderExists(o) /\ ProcessRefund(u, o, amount)

SpecRefundGate == Init /\ [][NextRefundGate]_vars

\* ---------------------------------------------------------------- claims
\* sum of the quantities the lines of a request order of product id
RECURSIVE QuantityOf(_, _)
QuantityOf(items, id) ==
  IF items = <<>> THEN 0
  ELSE (IF Head(items).product = id THEN Head(items).quantity ELSE 0)
       + QuantityOf(Tail(items), id)

\* sum over the lines of price * (1 - offer/100) * quantity, in hundredths,
\* at the prices and offers of the catalog prods
RECURSIVE ClaimedTotal(_, _)
ClaimedTotal(items, prods) ==
  IF items = <<>> THEN 0
  ELSE prods[Head(items).product].price * (100 - prods[Head(items).product].offer)
         * Head(items).quantity
       + ClaimedTotal(Tail(items), prods)

\* every line names a product of the catalog prods
AllListed(items, prods) ==
  \A i \in 1..Len(items) :
     items[i].product \in 1..Len(prods) /\ prods[items[i].product].exists

\* every line finds its quantity in stock when its turn comes
EveryLineSufficient(items, prods) ==
  /\ AllListed(items, prods)
  /\ \A i \in 1..Len(items) :
        items[i].quantity <= prods[items[i].product].stock
                             - QuantityOf(SubSeq(items, 1, i - 1), items[i].product)

\* some line asks for more than the stock of its product
SomeLineExceedsStock(items, prods) ==
  \E i \in 1..Len(items) : items[i].quantity > prods[items[i].product].stock

FinishedPlacement(r) ==
  /\ req[r].pc = "done"
  /\ Role(req[r].user) = "customer"
  /\ req[r].items # <<>>

\* C2: with a product at stock 1 and two concurrent placement requests for
\* quantity 1 of it, exactly one request succeeds, the other fails with
\* InsufficientStock, and the final stock is 0.
C2_ExactlyOneSucceeds ==
  \A id \in ProductRefs :
     ( /\ \A r \in Slots :
            /\ FinishedPlacement(r)
            /\ req[r].items = <<[product |-> id, quantity |-> 1]>>
            /\ id \in 1..Len(req[r].before)
            /\ req[r].before[id].stock = 1 )
     => /\ {req[r].resp : r \in Slots} = {"Created", "InsufficientStock"}
        /\ products[id].stock = 0

\* C3: a placement request of a customer that runs without interference and
\* finds every line in stock is persisted; the persisted order's total is the
\* sum over the lines of price * (1 - offer/100) * quantity and each product's
\* stock has gone down by the total quantity ordered of it.
C3_TotalAndStock ==
  \A r \in Slots :
     FinishedPlacement(r) =>
       /\ EveryLineSufficient(req[r].items, req[r].before) => req[r].resp = "Created"
       /\ req[r].resp = "Created" =>
            /\ Len(orders) = req[r].ordersBefore + 1
            /\ orders[Len(orders)].total = ClaimedTotal(req[r].items, req[r].before)
            /\ \A id \in 1..Len(req[r].before) :
                  products[id].stock =
                    req[r].before[id].stock - QuantityOf(req[r].items, id)

\* a persisted request with two lines of the same product
C3_Witness ==
  \E r \in Slots :
     /\ FinishedPlacement(r)
     /\ req[r].resp = "Created"
     /\ Len(req[r].items) = 2
     /\ req[r].items[1].product = req[r].items[2].product
     /\ orders[Len(orders)].total > 0

\* C4: a placement request in which some line asks for more than the stock of
\* its product changes no product's stock, persists no order and reports
\* InsufficientStock, wherever the failing line stands in the list.
C4_NoPartialEffect ==
  \A r \in Slots :
     ( /\ FinishedPlacement(r)
       /\ AllListed(req[r].items, req[r].before)
       /\ SomeLineExceedsStock(req[r].items, req[r].before) )
     => /\ req[r].resp = "InsufficientStock"
        /\ \A id \in 1..Len(req[r].before) : products[id] = req[r].before[id]
        /\ Len(orders) = req[r].ordersBefore

\* ---------------------------------------------------------------- lifecycle claims
Terminal == {"delivered", "cancelled", "refunded"}

\* the transitions of the order status state machine
AllowedTransitions ==
  {<<"pending", "paid">>, <<"paid", "shipped">>, <<"shipped", "delivered">>,
   <<"pending", "cancelled">>, <<"paid", "cancelled">>, <<"paid", "refunded">>}

\* the actors a cancellation is open to
MayCancel(u, o) ==
  \/ Role(u) = "admin"
  \/ Role(u) = "customer" /\ orders[o].customer = u
  \/ Role(u) = "vendor" /\ VendorHasProductIn(u, orders[o].items)

\* the actors a refund is open to
MayRefund(u, o) == Role(u) = "admin" \/ orders[o].customer = u

\* C1: every product's stock is >= 0 in every reachable state.
C1_StockNonNegative ==
  \A id \in 1..Len(products) : products[id].stock >= 0

\* C5: whenever the cancel operation or a vendor status update changes an
\* order's status to cancelled, every line's product stock goes up by the
\* line's quantity if the order was paid, and no stock changes if it was
\* pending.
C5_CancelRestoresStock ==
  [][\A o \in 1..Len(orders) :
        ( /\ last'.op \in {"cancel", "vendorStatus"}
          /\ orders[o].status # "cancelled"
          /\ orders'[o].status = "cancelled" )
        => /\ orders[o].status = "paid" =>
                \A id \in 1..Len(products) :
                   products'[id].stock =
                     products[id].stock + QuantityOf(orders[o].items, id)
           /\ orders[o].status = "pending" => products' = products]_vars

\* C6: a cancellation request on a delivered, cancelled or refunded order
\* fails with InvalidTransition and leaves the order's status and every
\* product's stock unchanged.
C6_TerminalNotCancellable ==
  [][\A u \in Users, o \in 1..Len(orders) :
        ( /\ orders[o].status \in Terminal
          /\ MayCancel(u, o)
          /\ \/ CancelOrder(u, o)
             \/ Role(u) = "vendor" /\ UpdateOrderStatus(u, o, "cancelled") )
        => /\ last'.code = "InvalidTransition"
           /\ orders'[o].status = orders[o].status
           /\ products' = products]_vars

\* C7: once an order's status is delivered, cancelled or refunded it never
\* changes again.
C7_TerminalIsFinal ==
  [][\A o \in 1..Len(orders) :
        orders[o].status \in Terminal => orders'[o].status = orders[o].status]_vars

\* C8: a vendor status update moves an order along a transition of the state
\* machine only (paid -> shipped, shipped -> delivered, pending|paid ->
\* cancelled); from any other current status it fails with InvalidTransition
\* and leaves the status unchanged.
C8_VendorFollowsStateMachine ==
  [][\A u \in Vendors, o \in 1..Len(orders), status \in VendorStatuses :
        ( /\ VendorHasProductIn(u, orders[o].items)
          /\ UpdateOrderStatus(u, o, status) )
        => IF <<orders[o].status, status>> \in AllowedTransitions
           THEN orders'[o].status = status
           ELSE /\ last'.code = "InvalidTransition"
                /\ orders'[o].status = orders[o].status]_vars

\* C9: self-pay, payment confirm and the payment webhook set an order's
\* status to paid only when it is pending, and otherwise leave the status as
\* it is.
C9_PaidOnlyFromPending ==
  [][\A o \in 1..Len(orders) :
        ( /\ last'.op \in {"pay", "confirm", "webhook"}
          /\ orders[o].status # "pending" )
        => orders'[o].status = orders[o].status]_vars

\* the outcome the refund rules give a request of an authorized actor on an
\* order whose paymentStatus is paid
RefundOutcome(o, amount) ==
  IF amount > orders[o].total
  THEN /\ last'.code \notin {"OK", "Created"}
       /\ orders' = orders
  ELSE IF amount = orders[o].total
  THEN /\ orders'[o].status = "refunded"
       /\ orders'[o].paymentStatus = "refunded"
  ELSE /\ orders'[o].status = orders[o].status
       /\ orders'[o].paymentStatus = orders[o].paymentStatus

RefundRequest(u, o, amount) ==
  /\ orders[o].paymentStatus = "paid"
  /\ MayRefund(u, o)
  /\ ProcessRefund(u, o, amount)

RECURSIVE SumOfLines(_)
SumOfLines(items) ==
  IF items = <<>> THEN 0
  ELSE Head(items).priceAtPurchase * Head(items).quantity + SumOfLines(Tail(items))

\* C11: no operation changes the total or a line's priceAtPurchase of an
\* order that exists, so the total stays the sum of priceAtPurchase * quantity
\* over the order's lines.
C11_TotalAndPricesImmutable ==
  [][\A o \in 1..Len(orders) :
        /\ orders'[o].total = orders[o].total
        /\ \A i \in 1..Len(orders[o].items) :
              orders'[o].items[i].priceAtPurchase = orders[o].items[i].priceAtPurchase
        /\ orders'[o].total = SumOfLines(orders'[o].items)]_vars

\* what a product update or delete by u answers and leaves of product id:
\* a vendor who is not the owning vendor is refused with the code refusal and
\* the catalog is unchanged, anyone else succeeds and leaves the product as
\* the record after
ProductWriteOutcome(u, id, refusal, after) ==
  IF Role(u) = "vendor" /\ products[id].vendor # u
  THEN last'.code = refusal /\ products' = products
  ELSE last'.code = "OK" /\ products'[id] = after

\* the product update and delete requests of vendors and admins on existing
\* products answer as ProductWriteOutcome says, with the refusal code refusal
ProductWritesAnswer(refusal) ==
  \A u \in Vendors \cup Admins, id \in 1..Len(products) :
     products[id].exists =>
       /\ \A price \in CatalogPrices, offer \in CatalogOffers, stock \in CatalogStocks :
             UpdateProduct(u, id, price, offer, stock) =>
               ProductWriteOutcome(u, id, refusal,
                 [products[id] EXCEPT !.price = price, !.offer = offer, !.stock = stock])
       /\ DeleteProduct(u, id) =>
             ProductWriteOutcome(u, id, refusal, [products[id] EXCEPT !.exists = FALSE])

C20_OfferAndPriceInRange ==
  /\ \A id \in 1..Len(products) :
        products[id].offer \in 0..100 /\ products[id].price >= 0
  /\ \A r \in Slots :
        (req[r].pc = "done" /\ req[r].resp = "Created") =>
          \A i \in 1..Len(req[r].orderItems) :
             LET line == req[r].orderItems[i]
             IN /\ line.priceAtPurchase >= 0
                /\ line.priceAtPurchase <= 100 * req[r].before[line.product].price

\* C13: after any sequence of cart add, remove and clear requests of a
\* customer, each product is on at most one line of the customer's cart and
\* the cart holds of each product the sum of the quantities added since the
\* product was last removed or the cart last cleared.
C13_CartMergesLines ==
  \A c \in Customers, p \in CartProductRefs :
     LET items == carts[c].items
     IN /\ Cardinality({i \in 1..Len(items) : items[i].product = p}) <= 1
        /\ QuantityOf(items, p) = added[c][p]

\* a cart of two lines, one of them merged up to the cap
C13_Witness ==
  \E c \in Customers :
     /\ Len(carts[c].items) = 2
     /\ \E i \in 1..2 : carts[c].items[i].quantity = MaxCartQty
     /\ last = Response("cartAdd", "OK")

\* C14: after any sequence and interleaving of category create and update
\* requests no two stored categories have names that are equal ignoring
\* case: a create or rename to a name that equals an existing category's
\* ignoring case stores nothing.
C14_NamesUniqueIgnoringCase ==
  \A i, j \in 1..Len(categories) :
     i # j => Lower(categories[i].name) # Lower(categories[j].name)

\* the cart subtotal: sum of price * quantity over the lines
Subtotal(items) ==
  LET RECURSIVE UpTo(_)
      UpTo(n) == IF n = 0 THEN 0
                 ELSE UpTo(n - 1) + items[n].price * items[n].quantity
  IN UpTo(Len(items))

\* C15: the shipping cost returned for a non-empty item list is 0 whenever
\* the cart subtotal is strictly greater than 50, for every shipping method
\* and every weight; when the subtotal is <= 50, exactly 50 included, it is
\* base[method] + perKg[method] * totalWeight (hundredths; weight in grams).
C15_ShippingCost ==
  (quote.pc = "answered" /\ quote.items # <<>> /\ quote.destination) =>
    /\ quote.code = "OK"
    /\ IF Subtotal(quote.items) > 50
       THEN quote.body.shippingCost = 0
       ELSE quote.body.shippingMethod \in DOMAIN ShippingRates =>
              quote.body.shippingCost =
                ShippingRates[quote.body.shippingMethod].base
                + (ShippingRates[quote.body.shippingMethod].perKg
                   * quote.body.totalWeight) \div 1000

\* a request with a subtotal of exactly 50 is answered with a cost
C15_Witness ==
  /\ quote.pc = "answered"
  /\ quote.code = "OK"
  /\ Subtotal(quote.items) = 50
  /\ quote.body.shippingCost > 0
  /\ quote.body.totalWeight > 0

\* the sum of total over the first n orders whose status is paid or delivered
RECURSIVE PaidOrDeliveredTotal(_)
PaidOrDeliveredTotal(n) ==
  IF n = 0 THEN 0
  ELSE PaidOrDeliveredTotal(n - 1)
       + (IF orders[n].status = "paid" \/ orders[n].status = "delivered"
          THEN orders[n].total ELSE 0)

\* C16: the revenue the admin analytics report is the sum of total over
\* exactly the orders whose status is paid or delivered; pending, shipped,
\* cancelled and refunded orders contribute nothing.
C16_RevenueOfPaidAndDelivered ==
  (last.op = "analytics" /\ last.code = "OK") =>
    last.body.totalRevenue = PaidOrDeliveredTotal(Len(orders))

\* analytics reported with a delivered order counted and a shipped one not
C16_Witness ==
  /\ last.op = "analytics"
  /\ last.code = "OK"
  /\ \E o1, o2 \in 1..Len(orders) :
        /\ orders[o1].status = "delivered"
        /\ orders[o2].status = "shipped"
        /\ last.body.totalRevenue = orders[o1].total
        /\ orders[o2].total > 0

\* u is the vendor of the product of some line of order o
OwnsALine(u, o) ==
  \E i \in 1..Len(orders[o].items) :
     LET p == orders[o].items[i].product
     IN p \in 1..Len(products) /\ products[p].exists /\ products[p].vendor = u

\* C17: a cancellation request succeeds only for the order's owning
\* customer, a vendor owning at least one product on the order's lines, or an
\* admin; a request from a customer who does not own the order or from a
\* vendor owning none of its products fails with Forbidden and leaves the
\* order's status and all stock unchanged.
C17_CancelAuthorization ==
  [][\A u \in Users, o \in 1..Len(orders) :
        CancelOrder(u, o) =>
          /\ last'.code = "OK" =>
               \/ Role(u) = "admin"
               \/ Role(u) = "customer" /\ orders[o].customer = u
               \/ Role(u) = "vendor" /\ OwnsALine(u, o)
          /\ ( \/ Role(u) = "customer" /\ orders[o].customer # u
               \/ Role(u) = "vendor" /\ ~OwnsALine(u, o) )
             => /\ last'.code = "Forbidden"
                /\ orders'[o].status = orders[o].status
                /\ products' = products]_vars

\* a cancellation of an order that could still be cancelled was refused
C17_Witness ==
  /\ last = Response("cancel", "Forbidden")
  /\ \E o \in 1..Len(orders) : orders[o].status = "paid"
  /\ \E id \in 1..Len(products) : products[id].exists

\* the request in slot r has changed no product it could see and persisted
\* no order
NoEffect(r) ==
  /\ Len(orders) = req[r].ordersBefore
  /\ \A id \in 1..Len(req[r].before) : products[id] = req[r].before[id]

\* C18: an order-creation request from a caller whose role is not customer
\* fails with Forbidden, and one with an empty item list fails with
\* InvalidInput; in both cases no product's stock changes and no order is
\* persisted.
C18_RejectedBeforeAnyEffect ==
  \A r \in Slots :
     req[r].pc = "done" =>
       /\ Role(req[r].user) # "customer" =>
            req[r].resp = "Forbidden" /\ NoEffect(r)
       /\ (Role(req[r].user) = "customer" /\ req[r].items = <<>>) =>
            req[r].resp = "InvalidInput" /\ NoEffect(r)

\* a vendor's request for a product in stock has been refused
C18_Witness ==
  \E r \in Slots :
     /\ req[r].pc = "done"
     /\ Role(req[r].user) = "vendor"
     /\ req[r].resp = "Forbidden"
     /\ req[r].items # <<>>
     /\ \A i \in 1..Len(req[r].items) :
           /\ req[r].items[i].product \in 1..Len(products)
           /\ products[req[r].items[i].product].stock >= req[r].items[i].quantity

\* C19: every line of every persisted order has quantity >= 1: a placement
\* request with a line of quantity 0 or less results neither in a persisted
\* line of that quantity nor in a stock increase.
C19_QuantityAtLeastOne ==
  /\ \A o \in 1..Len(orders) :
        \A i \in 1..Len(orders[o].items) : orders[o].items[i].quantity >= 1
  /\ \A r \in Slots :
        ( /\ req[r].pc = "done"
          /\ \E i \in 1..Len(req[r].items) : req[r].items[i].quantity <= 0 )
        => \A id \in 1..Len(req[r].before) :
              products[id].stock <= req[r].before[id].stock


C22_CreatedPendingForRequester ==
  [][/\ \A r \in Slots :
          PlaceOrderSave(r) =>
            /\ Len(orders') = Len(orders) + 1
            /\ orders'[Len(orders')].status = "pending"
            /\ orders'[Len(orders')].paymentStatus = "pending"
            /\ orders'[Len(orders')].customer = req[r].user
            /\ Role(req[r].user) = "customer"
     /\ \A o \in 1..Len(orders) :
          o <= Len(orders') => orders'[o].customer = orders[o].customer]_vars

\* an order placed by the second customer has since been paid and shipped
C22_Witness ==
  \E o \in 1..Len(orders) :
     /\ orders[o].customer = "c2"
     /\ orders[o].status = "shipped"
     /\ orders[o].paymentStatus = "paid"

\* C23: orders are never physically removed: an order that is persisted is
\* there, the same order at the same id, after every step of cancel, refund,
\* status update and admin update; cancellation only changes its status.
C23_OrdersNeverRemoved ==
  [][/\ \A o \in 1..Len(orders) :
          /\ o <= Len(orders')
          /\ orders'[o].customer = orders[o].customer
          /\ orders'[o].items = orders[o].items
     /\ last' = Response("cancel", "OK") =>
          \E o \in 1..Len(orders) :
             orders' = [orders EXCEPT ![o].status = "cancelled"]]_vars

\* an order has been cancelled and is still in the collection
C23_Witness ==
  /\ last = Response("cancel", "OK")
  /\ \E o \in 1..Len(orders) : orders[o].status = "cancelled"


\* the user record is gone or has isBlocked set
Barred(u) == ~users[u].exists \/ users[u].isBlocked

\* C24: create, cancel, self-pay and vendor status update reject the request
\* of a caller whose user record no longer exists or has isBlocked set, and
\* leave orders and stock unchanged; a blocked user cannot place, pay for or
\* cancel an order.
C24_BarredCallerRejected ==
  [][/\ \A r \in Slots :
          (PlaceOrderUpdateStock(r) \/ PlaceOrderSave(r)) => ~Barred(req[r].user)
     /\ \A u \in Users, o \in 1..Len(orders) :
          ( /\ Barred(u)
            /\ \/ CancelOrder(u, o)
               \/ PayOrder(u, o)
               \/ \E status \in VendorStatuses : UpdateOrderStatus(u, o, status) )
          => /\ last'.code \notin {"OK", "Created"}
             /\ orders' = orders
             /\ products' = products]_vars


\* the units of product id on the orders 1..n whose stock has not been restored
RECURSIVE Outstanding(_, _)
Outstanding(n, id) ==
  IF n = 0 THEN 0
  ELSE (IF ledger[n].restored = 0 THEN QuantityOf(orders[n].items, id) ELSE 0)
       + Outstanding(n - 1, id)

\* C25: stock is restored at most once per order: with no request in flight
\* and no direct stock writes, each product's stock never exceeds its initial
\* value, and stock plus the quantities of the product on all orders not yet
\* restored equals the initial stock.
C25_RestoredAtMostOnce ==
  InFlight = {} =>
    /\ \A o \in 1..Len(orders) : ledger[o].restored <= 1
    /\ \A id \in 1..Len(products) :
          /\ products[id].stock <= InitialStock
          /\ products[id].stock + Outstanding(Len(orders), id) = InitialStock


\* C26: for every order, the sum of the amounts of all refund requests
\* reported as succeeded never exceeds the order's total.
C26_RefundsWithinTotal ==
  \A o \in 1..Len(orders) : ledger[o].refunded <= orders[o].total


\* C27: whenever an order's status is paid its paymentStatus is also paid, so
\* a refund request of the owning customer on an order with status paid, for
\* an amount within the total, is accepted.
C27_PaidIsRefundable ==
  [][\A o \in 1..Len(orders) :
        orders[o].status = "paid" =>
          /\ orders[o].paymentStatus = "paid"
          /\ \A amount \in RefundAmounts \ {0} :
                ( /\ amount <= orders[o].total
                  /\ ProcessRefund(orders[o].customer, o, amount) )
                => last'.code = "OK"]_vars


\* category target is reached from category id by following parent
\* references, at most steps of them
RECURSIVE HasAncestor(_, _, _)
HasAncestor(id, target, steps) ==
  /\ steps > 0
  /\ id \in 1..Len(categories)
  /\ \/ categories[id].parent = target
     \/ HasAncestor(categories[id].parent, target, steps - 1)

\* the sequence holds no value twice
NoRepeats(seq) == \A i, j \in 1..Len(seq) : seq[i] = seq[j] => i = j

\* C28: after any sequence of category create and update operations the
\* parent references form a forest: no category is its own ancestor, and the
\* subcategory walk from any category returns, having visited each category
\* at most once.
C28_ParentsFormForest ==
  \A id \in 1..Len(categories) :
     /\ ~HasAncestor(id, id, Len(categories))
     /\ \A i \in 1..Len(CategoryIds(id)) : CategoryIds(id)[i] # Unfinished
     /\ NoRepeats(CategoryIds(id))


\* C29: after any sequence of save, update, delete and set-default
\* operations on one user's shipping addresses, exactly one address has
\* isDefault = true whenever the user has at least one address.
C29_ExactlyOneDefault ==
  \A u \in Customers :
     Len(addresses[u]) > 0 =>
       Cardinality({i \in 1..Len(addresses[u]) : addresses[u][i].isDefault}) = 1


\* C30: a DELETE /clear request by an existing user reaches the clear
\* handler and leaves that user with an empty notification list, with
\* DELETE /:id registered before DELETE /clear and the routes matched in
\* registration order.
C30_ClearEmptiesTheList ==
  [][\A u \in Customers :
        (UserExists(u) /\ NotificationRequest(u, "DELETE", <<"clear">>)) =>
          /\ last'.op = "clearNotifications"
          /\ notifications'[u] = <<>>]_vars

====
